---- MODULE Spec2Model ----
(***************************************************************************)
(* Model of the monthly cars report job: src/cars_monthly.py (main and its *)
(* helpers) and the parts of src/s3_api.py that main calls.                *)
(*                                                                         *)
(* Text that the code slices or splits (object keys, file names, tab      *)
(* titles, YearCar, timestamp) is a sequence of one-character strings.     *)
(* The Cyrillic literals of the source are written in Latin letters:      *)
(* ARKHIV, LICHNAYA, BETMOBIL, "svodnaya tablitsa".                        *)
(***************************************************************************)
EXTENDS Integers, Sequences, FiniteSets, TLC

VARIABLES
    s3_keys,            \* keys of the bucket, in listing order (the object store)
    files,              \* relative paths of the files under BASE_DIR
    empty_files,        \* the paths among files that hold no bytes
    tabs,               \* the destination spreadsheet: sequence of [title, row_count, values]
    worksheets,         \* main's list of worksheet handles (their titles)
    pc,                 \* position of main
    run,                \* number of the current run of main
    s3_objects,         \* main's s3_objects
    i,                  \* index of the next key of the selection loop
    data_files,         \* main's data_files
    j,                  \* index of the next file of the processing loop
    dataframe_cols,     \* main's dataframe_cols (0: not bound yet)
    ws_idx,             \* index of the next handle of the aggregation loop
    consolidated_data,  \* main's consolidated_data
    header_row,         \* main's header_row
    crash,              \* what ended the run abnormally ("none" otherwise)
    decisions,          \* history: File Selector's verdict on each key it evaluated
    downloaded,         \* history: keys download_object fetched in this run
    prev_downloaded,    \* history: keys download_object fetched in earlier runs
    prev_done,          \* history: the run before this one reached its end
    cleaned,            \* history: data paths clean_dataframe returned a table for
    written,            \* history: data paths whose table was written to a tab
    sync_log,           \* history: branch taken for each processed file
    agg_ops,            \* history: mutations of the all_data tab by the Aggregator
    df_in,              \* Record Cleaner on its own: the raw table
    df_out              \* Record Cleaner on its own: its result

vars == << s3_keys, files, empty_files, tabs, worksheets, pc, run, s3_objects, i,
           data_files, j, dataframe_cols, ws_idx, consolidated_data, header_row,
           crash, decisions, downloaded, prev_downloaded, prev_done, cleaned,
           written, sync_log, agg_ops, df_in, df_out >>

-----------------------------------------------------------------------------
(* Bounds of the model *)

MaxObjects == 2     \* keys in the bucket
MaxLocal == 2       \* files in the data directory before the first run
MaxTabs == 2        \* tabs on the spreadsheet before the first run
MaxRuns == 2        \* consecutive runs of main
MaxRows == 3        \* rows of a raw table given to the Record Cleaner on its own

-----------------------------------------------------------------------------
(* Python text operations *)

Min(a, b) == IF a < b THEN a ELSE b
Max(a, b) == IF a > b THEN a ELSE b

\* s[a:b] for 0 <= a <= b
Slice(s, a, b) == SubSeq(s, a + 1, Min(b, Len(s)))

\* s[:n]
Prefix(s, n) == Slice(s, 0, n)

\* sub in s
Contains(s, sub) ==
    \E k \in 0..(Len(s) - Len(sub)) : SubSeq(s, k + 1, k + Len(sub)) = sub

\* position of the first sep in s, 0 when absent
RECURSIVE FindFrom(_, _, _)
FindFrom(s, sep, k) ==
    IF k > Len(s) THEN 0
    ELSE IF s[k] = sep THEN k
    ELSE FindFrom(s, sep, k + 1)

\* s.split(sep) for a one-character sep
RECURSIVE Split(_, _)
Split(s, sep) ==
    LET k == FindFrom(s, sep, 1) IN
    IF k = 0 THEN << s >>
    ELSE << SubSeq(s, 1, k - 1) >> \o Split(SubSeq(s, k + 1, Len(s)), sep)

Digits == {"0", "1", "2", "3", "4", "5", "6", "7", "8", "9"}

DigitVal(c) ==
    CASE c = "0" -> 0 [] c = "1" -> 1 [] c = "2" -> 2 [] c = "3" -> 3
      [] c = "4" -> 4 [] c = "5" -> 5 [] c = "6" -> 6 [] c = "7" -> 7
      [] c = "8" -> 8 [] c = "9" -> 9

IsDigits(s) == Len(s) > 0 /\ \A k \in 1..Len(s) : s[k] \in Digits

RECURSIVE DecVal(_)
DecVal(s) ==
    IF Len(s) = 0 THEN 0
    ELSE 10 * DecVal(SubSeq(s, 1, Len(s) - 1)) + DigitVal(s[Len(s)])

\* int(s): the texts of the model hold no sign, blank or underscore between digits
PyInt(s) ==
    IF IsDigits(s) THEN [raised |-> "none", value |-> DecVal(s)]
    ELSE [raised |-> "ValueError", value |-> 0]

TwoDigits(n) ==
    LET d == <<"0", "1", "2", "3", "4", "5", "6", "7", "8", "9">> IN
    << d[(n \div 10) + 1], d[(n % 10) + 1] >>

IsLeap(y) == (y % 4 = 0 /\ y % 100 # 0) \/ y % 400 = 0

DaysInMonth(y, m) ==
    IF m = 2 THEN (IF IsLeap(y) THEN 29 ELSE 28)
    ELSE IF m \in {4, 6, 9, 11} THEN 30 ELSE 31

\* the ways the directives %m%d can share the text after the 4-digit year,
\* in the order the format's regular expression tries them
MonthDaySplits(rest) ==
    LET cand == << <<2, 2>>, <<2, 1>>, <<1, 2>>, <<1, 1>> >>
        fits(c) ==
            /\ Len(rest) = c[1] + c[2]
            /\ LET m == DecVal(SubSeq(rest, 1, c[1]))
                   d == DecVal(SubSeq(rest, c[1] + 1, Len(rest)))
               IN  /\ m \in 1..12
                   /\ (c[1] = 2 \/ m \in 1..9)
                   /\ d \in 1..31
    IN  SelectSeq(cand, fits)

\* datetime.strptime(s, "%Y%m%d").strftime("%Y-%m-%d"), for years 1000..9999
StrpYmd(s) ==
    IF ~IsDigits(s) \/ Len(s) < 6 THEN [raised |-> "ValueError", value |-> << >>]
    ELSE
        LET y == DecVal(SubSeq(s, 1, 4))
            rest == SubSeq(s, 5, Len(s))
            sp == MonthDaySplits(rest)
        IN  IF sp = << >> \/ y < 1000 THEN [raised |-> "ValueError", value |-> << >>]
            ELSE
                LET m == DecVal(SubSeq(rest, 1, sp[1][1]))
                    d == DecVal(SubSeq(rest, sp[1][1] + 1, Len(rest)))
                IN  IF d > DaysInMonth(y, m)
                    THEN [raised |-> "ValueError", value |-> << >>]
                    ELSE [raised |-> "none",
                          value |-> SubSeq(s, 1, 4) \o <<"-">> \o TwoDigits(m)
                                    \o <<"-">> \o TwoDigits(d)]

\* datetime.strptime(s, "%Y%m%d%H%M%S").strftime("%Y-%m-%d") for a 14-character s;
\* any other text of the model (NaN's "nan", a dashed date) does not match the format
StrpTimestamp(s) ==
    IF Len(s) # 14 \/ ~IsDigits(s) THEN [raised |-> "ValueError", value |-> << >>]
    ELSE
        LET date == StrpYmd(SubSeq(s, 1, 8))
            hh == DecVal(SubSeq(s, 9, 10))
            mi == DecVal(SubSeq(s, 11, 12))
            ss == DecVal(SubSeq(s, 13, 14))
        IN  IF date.raised # "none" \/ hh > 23 \/ mi > 59 \/ ss > 61
            THEN [raised |-> "ValueError", value |-> << >>]
            ELSE date

-----------------------------------------------------------------------------
(* File Selector *)

CARS == <<"c", "a", "r", "s">>

\* is_file_name_on_1st reading the month digits [4:6] instead of the day digits
is_file_name_on_1st_month(file_name) ==
    LET parts == Split(file_name, "_") IN
    IF Len(parts) < 2 THEN [raised |-> "IndexError", value |-> FALSE]
    ELSE
        LET n == PyInt(Slice(Split(parts[2], ".")[1], 4, 6)) IN
        IF n.raised # "none" THEN [raised |-> n.raised, value |-> FALSE]
        ELSE [raised |-> "none", value |-> n.value = 1]

\* is_file_name_on_1st(file_name)
is_file_name_on_1st(file_name) ==
    LET parts == Split(file_name, "_") IN
    IF Len(parts) < 2 THEN [raised |-> "IndexError", value |-> FALSE]
    ELSE
        LET n == PyInt(Slice(Split(parts[2], ".")[1], 6, 8)) IN
        IF n.raised # "none" THEN [raised |-> n.raised, value |-> FALSE]
        ELSE [raised |-> "none", value |-> n.value = 1]

\* get_sheet_name(file_name)
get_sheet_name(file_name) ==
    LET parts == Split(file_name, "_") IN
    IF Len(parts) < 2 THEN [raised |-> "IndexError", value |-> << >>]
    ELSE StrpYmd(Prefix(parts[2], 8))

-----------------------------------------------------------------------------
(* Record Cleaner *)

\* a missing cell of a pandas table; never equal to a text
NaN == << "NaN" >>

\* str(x) of a cell
PyStr(x) == IF x = NaN THEN <<"n", "a", "n">> ELSE x

\* the characters the model's texts are made of, in code point order
Chars == << " ", "-", ".", "/", "0", "1", "2", "3", "4", "5", "6", "7", "8", "9", ":",
            "A", "B", "C", "D", "E", "H", "I", "K", "L", "M", "N", "O", "R", "T",
            "V", "Y", "_",
            "a", "b", "c", "d", "e", "f", "g", "h", "i", "l", "m", "n", "o", "p",
            "r", "s", "t", "u", "v", "x", "y" >>

Ord(c) == CHOOSE k \in 1..Len(Chars) : Chars[k] = c

\* a < b for two texts
RECURSIVE TextLess(_, _)
TextLess(a, b) ==
    IF Len(b) = 0 THEN FALSE
    ELSE IF Len(a) = 0 THEN TRUE
    ELSE IF a[1] = b[1] THEN TextLess(Tail(a), Tail(b))
    ELSE Ord(a[1]) < Ord(b[1])

ARKHIV == <<"A", "R", "K", "H", "I", "V">>
LICHNAYA == <<"L", "I", "C", "H", "N", "A", "Y", "A">>
BETMOBIL == <<"B", "E", "T", "M", "O", "B", "I", "L">>
ZERO_DATE == <<"0", "0", "0", "1", "-", "0", "1", "-", "0", "1", "T",
               "0", "0", ":", "0", "0", ":", "0", "0">>

\* the column names clean_dataframe gives its result
COLUMNS == << <<"d", "a", "t", "e">>, <<"m", "o", "d", "e", "l">>,
              <<"y", "e", "a", "r">>, <<"n", "u", "m", "b", "e", "r">>,
              <<"v", "i", "n">>,
              <<"d", "e", "p", "a", "r", "t", "m", "e", "n", "t">>,
              <<"r", "e", "g", "i", "o", "n">>,
              <<"s", "t", "a", "t", "u", "s">> >>

\* df.dropna(subset=["VIN", "Number", "Status", "Region", "Department"]) without Region
DropNaNoRegion(df) ==
    SelectSeq(df, LAMBDA r : /\ r.VIN # NaN /\ r.Number # NaN /\ r.Status # NaN
                             /\ r.Department # NaN)

\* df.dropna(subset=["VIN", "Number", "Status", "Region", "Department"])
DropNa(df) ==
    SelectSeq(df, LAMBDA r : /\ r.VIN # NaN /\ r.Number # NaN /\ r.Status # NaN
                             /\ r.Region # NaN /\ r.Department # NaN)

\* the boolean mask of lines 57-62
DropInvalid(df) ==
    SelectSeq(df, LAMBDA r : /\ r.Status \notin {ARKHIV, LICHNAYA}
                             /\ r.Department \notin {LICHNAYA}
                             /\ r.Model \notin {BETMOBIL}
                             /\ r.YearCar \notin {ZERO_DATE})

\* str(x)[:4]
YearOf(x) == Prefix(PyStr(x), 4)

\* fillna('') of a cell
FillNa(x) == IF x = NaN THEN << >> ELSE x

\* one row after the column clean-up, the projection, fillna and the renaming:
\* <<date, model, year, number, vin, department, region, status>>
CanonicalRow(r) ==
    << StrpTimestamp(PyStr(r.timestamp)).value, FillNa(r.Model), YearOf(r.YearCar),
       FillNa(r.Number), FillNa(r.VIN), FillNa(r.Department), FillNa(r.Region),
       FillNa(r.Status) >>

\* the sort key (model, year, department, region) of row a is below that of row b
KeyLess(a, b) ==
    LET ka == << a[2], a[3], a[6], a[7] >>
        kb == << b[2], b[3], b[6], b[7] >>
        d == {k \in 1..4 : ka[k] # kb[k]}
    IN  d # {} /\ LET f == CHOOSE k \in d : \A m \in d : k <= m
                  IN  TextLess(ka[f], kb[f])

\* insert row r into the sorted rows s after every row that is not above it
RECURSIVE InsertRow(_, _)
InsertRow(s, r) ==
    IF Len(s) = 0 THEN << r >>
    ELSE IF KeyLess(r, s[1]) THEN << r >> \o s
    ELSE << s[1] >> \o InsertRow(Tail(s), r)

\* df.sort_values(by=["model", "year", "department", "region"]): a stable sort
RECURSIVE SortRows(_)
SortRows(rows) ==
    IF Len(rows) = 0 THEN << >>
    ELSE InsertRow(SortRows(SubSeq(rows, 1, Len(rows) - 1)), rows[Len(rows)])

\* clean_dataframe on the table read_csv returned
clean_dataframe(df) ==
    LET kept == DropInvalid(DropNa(df))
        bad == \E k \in 1..Len(kept) :
                   StrpTimestamp(PyStr(kept[k].timestamp)).raised # "none"
    IN  IF bad THEN [raised |-> "ValueError", value |-> << >>]
        ELSE [raised |-> "none",
              value |-> SortRows([k \in 1..Len(kept) |-> CanonicalRow(kept[k])])]

-----------------------------------------------------------------------------
(* The texts the model draws its inputs from *)

CSV == <<".", "c", "s", "v">>
JAN01_03 == <<"2", "0", "2", "4", "0", "1", "0", "1", "0", "3", "0", "0", "0", "0">>
JAN01_04 == <<"2", "0", "2", "4", "0", "1", "0", "1", "0", "4", "0", "0", "0", "0">>
JAN15_03 == <<"2", "0", "2", "4", "0", "1", "1", "5", "0", "3", "0", "0", "0", "0">>
FEB01_03 == <<"2", "0", "2", "4", "0", "2", "0", "1", "0", "3", "0", "0", "0", "0">>

DATA == <<"d", "a", "t", "a">>
ALL_DATA == <<"a", "l", "l", "_", "d", "a", "t", "a">>
SVODNAYA == <<"s", "v", "o", "d", "n", "a", "y", "a", " ",
              "t", "a", "b", "l", "i", "t", "s", "a">>

CarsJan01 == CARS \o <<"_">> \o JAN01_03 \o CSV          \* cars_20240101030000.csv
CarsJan01b == CARS \o <<"_">> \o JAN01_04 \o CSV         \* cars_20240101040000.csv
CarsJan15 == CARS \o <<"_">> \o JAN15_03 \o CSV          \* cars_20240115030000.csv
CarsFeb01 == CARS \o <<"_">> \o FEB01_03 \o CSV          \* cars_20240201030000.csv
ExpJan01 == <<"e", "x", "p", "_">> \o JAN01_03 \o CSV    \* exp_20240101030000.csv
DataCarsFeb01 == DATA \o <<"/">> \o CarsFeb01            \* data/cars_20240201030000.csv
MyCarsJan01 == <<"m", "y", "_">> \o CarsJan01            \* my_cars_20240101030000.csv
CarsFile == CARS \o <<"f", "i", "l", "e">> \o CSV        \* carsfile.csv
CarsShort == CARS \o <<"_", "2", "0", "2", "4", "0", "1", "x", "x">> \o CSV
                                                         \* cars_202401xx.csv

\* keys of the documented form <prefix>_YYYYMMDDhhmmss.<ext>
ValidKeys == {CarsJan01, CarsJan15, CarsFeb01, ExpJan01, DataCarsFeb01, MyCarsJan01}

\* keys that do not have that form
MalformedKeys == {CarsFile, CarsShort}

Keys == ValidKeys \cup MalformedKeys

\* names of the files the data directory may hold before the first run
LocalNames == {CarsJan01, CarsJan01b, CarsFeb01, CarsFile}

\* the sequences without repetition of at most n elements of S
Arrangements(S, n) ==
    { q \in UNION { [1..m -> S] : m \in 0..n } :
        \A a, b \in 1..Len(q) : a # b => q[a] # q[b] }

Range(q) == { q[k] : k \in 1..Len(q) }

JAN01_DATE == <<"2", "0", "2", "4", "-", "0", "1", "-", "0", "1">>
ISO2015 == <<"2", "0", "1", "5", "-", "0", "1", "-", "0", "1", "T",
             "0", "0", ":", "0", "0", ":", "0", "0">>
ACTIVE == <<"A", "C", "T", "I", "V", "E">>

\* a raw record that the Record Cleaner keeps
GoodRow == [VIN |-> <<"V", "1">>, Number |-> <<"N", "1">>, Status |-> ACTIVE,
            Region |-> <<"R", "1">>, Department |-> <<"D", "1">>,
            Model |-> <<"M", "1">>, YearCar |-> ISO2015, timestamp |-> JAN01_03]

\* the values a cell of each raw column is drawn from
CellValues ==
    [VIN |-> {NaN, <<"V", "1">>},
     Number |-> {NaN, <<"N", "1">>},
     Status |-> {NaN, ACTIVE, ARKHIV, LICHNAYA},
     Region |-> {NaN, <<"R", "1">>},
     Department |-> {NaN, <<"D", "1">>, LICHNAYA},
     Model |-> {NaN, <<"M", "1">>, <<"A", "1">>, BETMOBIL},
     YearCar |-> {NaN, ISO2015, ZERO_DATE, <<"2", "0", "1", "5">>, <<"9", "9">>},
     timestamp |-> {JAN01_03, JAN01_DATE}]

\* the raw records that differ from GoodRow in at most one column
RawRows ==
    UNION { { [GoodRow EXCEPT ![f] = v] : v \in CellValues[f] } :
            f \in DOMAIN CellValues }

\* the raw tables read_csv returns in a run of main
RunTables ==
    { << GoodRow, [GoodRow EXCEPT !.Model = <<"A", "1">>] >>,
      << [GoodRow EXCEPT !.Status = ARKHIV], GoodRow >>,
      << [GoodRow EXCEPT !.timestamp = JAN01_DATE] >> }

\* the tabs the spreadsheet may hold before the first run
OldRow == << JAN01_DATE, <<"M", "0">>, <<"2", "0", "1", "0">>, <<"N", "0">>,
             <<"V", "0">>, <<"D", "0">>, <<"R", "0">>, ACTIVE >>

InitialTabs ==
    { [title |-> JAN01_DATE, row_count |-> 2, values |-> << COLUMNS, OldRow >>],
      [title |-> ALL_DATA, row_count |-> 2, values |-> << COLUMNS, OldRow >>],
      [title |-> SVODNAYA, row_count |-> 1,
       values |-> << << <<"t", "o", "t", "a", "l">>, <<"1">> >> >>] }

DataPath(name) == DATA \o <<"/">> \o name

\* os.listdir(os.path.join(BASE_DIR, "data"))
ListDirData ==
    { Split(SubSeq(p, Len(DATA) + 2, Len(p)), "/")[1] :
        p \in { q \in files : /\ Len(q) > Len(DATA) + 1
                               /\ SubSeq(q, 1, Len(DATA) + 1) = DATA \o <<"/">> } }

-----------------------------------------------------------------------------
(* The spreadsheet *)

\* [ws.title for ws in spreadsheet.worksheets()]
Titles == [k \in 1..Len(tabs) |-> tabs[k].title]

TabIndex(title) == CHOOSE k \in 1..Len(tabs) : tabs[k].title = title

\* ws.get_all_values() of the tab a handle refers to
GetAllValues(title) == tabs[TabIndex(title)].values

\* values[1:]
DataRowsOf(values) == IF Len(values) = 0 THEN << >> ELSE Tail(values)

\* worksheet.update(new) from cell A1: the cells below the written range stay
Overwrite(old, new) == new \o SubSeq(old, Len(new) + 1, Len(old))

\* how the remote calls of one step end: all succeed, the call that opens the
\* tab (add_worksheet, resize) fails, or the call that writes it fails
SheetOutcomes == {"ok", "fail_open", "fail_write"}

-----------------------------------------------------------------------------
(* main *)

Crash(what) == pc' = "crashed" /\ crash' = what

cleaner == << df_in, df_out >>

NoTable == [raised |-> "pending", value |-> << >>]

\* the state before the first run, with the bucket's keys drawn from K
InitOver(K) ==
    /\ s3_keys \in Arrangements(K, MaxObjects)
    /\ \E names \in SUBSET LocalNames :
           /\ Cardinality(names) <= MaxLocal
           /\ files = { DataPath(n) : n \in names }
    /\ empty_files = {}
    /\ tabs \in Arrangements(InitialTabs, MaxTabs)
    /\ worksheets = << >>
    /\ pc = "start"
    /\ run = 1
    /\ s3_objects = << >>
    /\ i = 1
    /\ data_files = << >>
    /\ j = 1
    /\ dataframe_cols = 0
    /\ ws_idx = 1
    /\ consolidated_data = << >>
    /\ header_row = << >>
    /\ crash = "none"
    /\ decisions = {}
    /\ downloaded = {}
    /\ prev_downloaded = {}
    /\ prev_done = FALSE
    /\ cleaned = {}
    /\ written = {}
    /\ sync_log = << >>
    /\ agg_ops = << >>
    /\ df_in = << >>
    /\ df_out = NoTable

\* lines 99-106: the handles of the tabs as they are now, and the bucket's keys
\* (list_objects returns [] when the listing raises ClientError)
Start ==
    /\ pc = "start"
    /\ worksheets' = Titles
    /\ \E listed \in BOOLEAN : s3_objects' = IF listed THEN s3_keys ELSE << >>
    /\ i' = 1
    /\ pc' = "select"
    /\ UNCHANGED << s3_keys, files, empty_files, tabs, run, data_files, j,
                    dataframe_cols, ws_idx, consolidated_data, header_row, crash,
                    decisions, downloaded, prev_downloaded, cleaned, written,
                    sync_log, agg_ops, cleaner, prev_done >>

\* lines 107-112 for one key: the three-part condition, then download_object,
\* which creates the target file and leaves it empty when the fetch raises ClientError
SelectKey ==
    /\ pc = "select"
    /\ i <= Len(s3_objects)
    /\ LET key == s3_objects[i]
           first == is_file_name_on_1st(key)
           local == key \in ListDirData
           verdict(sel) == [key |-> key, local |-> local, selected |-> sel]
       IN  IF ~Contains(key, CARS) \/ (first.raised = "none" /\ (~first.value \/ local))
           THEN /\ i' = i + 1
                /\ decisions' = decisions \cup {verdict(FALSE)}
                /\ UNCHANGED << files, empty_files, downloaded, pc, crash >>
           ELSE IF first.raised # "none"
           THEN /\ Crash(first.raised)
                /\ UNCHANGED << files, empty_files, downloaded, decisions, i >>
           ELSE /\ i' = i + 1
                /\ decisions' = decisions \cup {verdict(TRUE)}
                /\ files' = files \cup {key}
                /\ \E fetched \in BOOLEAN :
                       IF fetched
                       THEN /\ downloaded' = downloaded \cup {key}
                            /\ empty_files' = empty_files \ {key}
                       ELSE /\ downloaded' = downloaded
                            /\ empty_files' = empty_files \cup {key}
                /\ UNCHANGED << pc, crash >>
    /\ UNCHANGED << s3_keys, tabs, worksheets, run, s3_objects, data_files, j,
                    dataframe_cols, ws_idx, consolidated_data, header_row,
                    prev_downloaded, cleaned, written, sync_log, agg_ops, cleaner,
                    prev_done >>

\* line 115: os.listdir returns the names in an arbitrary order
ListDataFiles ==
    /\ pc = "select"
    /\ i > Len(s3_objects)
    /\ \E order \in Arrangements(ListDirData, Cardinality(ListDirData)) :
           /\ Len(order) = Cardinality(ListDirData)
           /\ data_files' = order
    /\ j' = 1
    /\ pc' = "process"
    /\ UNCHANGED << s3_keys, files, empty_files, tabs, worksheets, run, s3_objects,
                    i, dataframe_cols, ws_idx, consolidated_data, header_row, crash,
                    decisions, downloaded, prev_downloaded, cleaned, written,
                    sync_log, agg_ops, cleaner, prev_done >>

\* lines 116-136 for one file
ProcessFile ==
    /\ pc = "process"
    /\ j <= Len(data_files)
    /\ \E df \in RunTables, outcome \in SheetOutcomes :
         LET file == data_files[j]
             path == DataPath(file)
             c == clean_dataframe(df)
             t == get_sheet_name(file)
             title == t.value
             rows == Len(c.value)
             cols == Len(COLUMNS)
             table == << COLUMNS >> \o c.value
             create == title \notin Range(worksheets)
             existed == title \in Range(Titles)
             entry == [file |-> file, title |-> title, create |-> create,
                       existed |-> existed]
         IN  IF path \in empty_files
             THEN /\ Crash("read_csv")
                  /\ UNCHANGED << tabs, j, dataframe_cols, cleaned, written, sync_log >>
             ELSE IF c.raised # "none"
             THEN /\ Crash("clean_dataframe")
                  /\ UNCHANGED << tabs, j, dataframe_cols, cleaned, written, sync_log >>
             ELSE IF t.raised # "none"
             THEN /\ Crash("get_sheet_name")
                  /\ cleaned' = cleaned \cup {path}
                  /\ UNCHANGED << tabs, j, dataframe_cols, written, sync_log >>
             ELSE /\ cleaned' = cleaned \cup {path}
                  /\ dataframe_cols' = cols
                  /\ sync_log' = Append(sync_log, entry)
                  /\ IF create /\ (existed \/ outcome = "fail_open")
                     THEN /\ Crash("add_worksheet")
                          /\ UNCHANGED << tabs, j, written >>
                     ELSE IF ~create /\ outcome = "fail_open"
                     THEN /\ Crash("resize")
                          /\ UNCHANGED << tabs, j, written >>
                     ELSE LET opened ==
                                  IF create
                                  THEN Append(tabs, [title |-> title, row_count |-> rows,
                                                     values |-> << >>])
                                  ELSE [tabs EXCEPT ![TabIndex(title)].row_count =
                                                        @ + rows]
                              k == IF create THEN Len(tabs) + 1 ELSE TabIndex(title)
                          IN  IF outcome = "fail_write"
                              THEN /\ tabs' = opened
                                   /\ Crash("update")
                                   /\ UNCHANGED << j, written >>
                              ELSE /\ tabs' = [opened EXCEPT
                                         ![k].values = Overwrite(@, table),
                                         ![k].row_count = Max(@, Len(table))]
                                   /\ written' = written \cup {path}
                                   /\ j' = j + 1
                                   /\ UNCHANGED << pc, crash >>
    /\ UNCHANGED << s3_keys, files, empty_files, worksheets, run, s3_objects, i,
                    data_files, ws_idx, consolidated_data, header_row, decisions,
                    downloaded, prev_downloaded, agg_ops, cleaner, prev_done >>

\* line 139, once the processing loop has ended
StartAggregate ==
    /\ pc = "process"
    /\ j > Len(data_files)
    /\ consolidated_data' = << >>
    /\ ws_idx' = 1
    /\ pc' = "agg_read"
    /\ UNCHANGED << s3_keys, files, empty_files, tabs, worksheets, run, s3_objects,
                    i, data_files, j, dataframe_cols, header_row, crash, decisions,
                    downloaded, prev_downloaded, cleaned, written, sync_log,
                    agg_ops, cleaner, prev_done >>

\* lines 140-142 for one handle of the list taken at line 103
AggregateRead ==
    /\ pc = "agg_read"
    /\ ws_idx <= Len(worksheets)
    /\ LET title == worksheets[ws_idx] IN
       IF title \in {ALL_DATA, SVODNAYA}
       THEN /\ ws_idx' = ws_idx + 1
            /\ UNCHANGED << consolidated_data, pc, crash >>
       ELSE \E read \in BOOLEAN :
                IF read
                THEN /\ consolidated_data' =
                            consolidated_data \o DataRowsOf(GetAllValues(title))
                     /\ ws_idx' = ws_idx + 1
                     /\ UNCHANGED << pc, crash >>
                ELSE /\ Crash("get_all_values")
                     /\ UNCHANGED << consolidated_data, ws_idx >>
    /\ UNCHANGED << s3_keys, files, empty_files, tabs, worksheets, run, s3_objects,
                    i, data_files, j, dataframe_cols, header_row, decisions,
                    downloaded, prev_downloaded, cleaned, written, sync_log,
                    agg_ops, cleaner, prev_done >>

\* lines 144-149: the all_data handle, created when the list of line 103 has none
EnsureAllData ==
    /\ pc = "agg_read"
    /\ ws_idx > Len(worksheets)
    /\ IF ALL_DATA \in Range(worksheets)
       THEN /\ pc' = "agg_header"
            /\ UNCHANGED << tabs, worksheets, agg_ops, crash >>
       ELSE IF dataframe_cols = 0
       THEN /\ Crash("UnboundLocalError")
            /\ UNCHANGED << tabs, worksheets, agg_ops >>
       ELSE \E added \in BOOLEAN :
                IF added /\ ALL_DATA \notin Range(Titles)
                THEN /\ tabs' = Append(tabs, [title |-> ALL_DATA, row_count |-> 1,
                                              values |-> << >>])
                     /\ worksheets' = Append(worksheets, ALL_DATA)
                     /\ agg_ops' = Append(agg_ops, "create")
                     /\ pc' = "agg_header"
                     /\ UNCHANGED crash
                ELSE /\ Crash("add_all_data")
                     /\ UNCHANGED << tabs, worksheets, agg_ops >>
    /\ UNCHANGED << s3_keys, files, empty_files, run, s3_objects, i, data_files, j,
                    dataframe_cols, ws_idx, consolidated_data, header_row,
                    decisions, downloaded, prev_downloaded, cleaned, written,
                    sync_log, cleaner, prev_done >>

\* line 151: worksheets[1].get_all_values()[0]; an empty tab reads as [[]] or as [],
\* depending on the gspread release
ReadHeader ==
    /\ pc = "agg_header"
    /\ IF Len(worksheets) < 2
       THEN /\ Crash("IndexError")
            /\ UNCHANGED header_row
       ELSE \E read \in BOOLEAN, nested \in BOOLEAN :
                LET values == GetAllValues(worksheets[2]) IN
                IF ~read
                THEN /\ Crash("get_all_values_header")
                     /\ UNCHANGED header_row
                ELSE IF Len(values) = 0 /\ ~nested
                THEN /\ Crash("IndexError")
                     /\ UNCHANGED header_row
                ELSE /\ header_row' = IF Len(values) = 0 THEN << >> ELSE values[1]
                     /\ pc' = "agg_publish"
                     /\ UNCHANGED crash
    /\ UNCHANGED << s3_keys, files, empty_files, tabs, worksheets, run, s3_objects,
                    i, data_files, j, dataframe_cols, ws_idx, consolidated_data,
                    decisions, downloaded, prev_downloaded, cleaned, written,
                    sync_log, agg_ops, cleaner, prev_done >>

\* lines 152-155: resize, clear and update of the all_data tab
Publish ==
    /\ pc = "agg_publish"
    /\ \E outcome \in SheetOutcomes :
         LET k == TabIndex(ALL_DATA)
             rows == Len(consolidated_data) + 1
             table == << header_row >> \o consolidated_data
         IN  IF outcome = "fail_open"
             THEN /\ Crash("publish_resize")
                  /\ UNCHANGED << tabs, agg_ops >>
             ELSE IF outcome = "fail_write"
             THEN /\ tabs' = [tabs EXCEPT ![k].row_count = rows, ![k].values = << >>]
                  /\ agg_ops' = agg_ops \o << "resize", "clear" >>
                  /\ Crash("publish_update")
             ELSE /\ tabs' = [tabs EXCEPT ![k].row_count = rows, ![k].values = table]
                  /\ agg_ops' = agg_ops \o << "resize", "clear", "update" >>
                  /\ pc' = "done"
                  /\ UNCHANGED crash
    /\ UNCHANGED << s3_keys, files, empty_files, worksheets, run, s3_objects, i,
                    data_files, j, dataframe_cols, ws_idx, consolidated_data,
                    header_row, decisions, downloaded, prev_downloaded, cleaned,
                    written, sync_log, cleaner, prev_done >>

\* the job is started again after a run has ended; the bucket, the local
\* files and the spreadsheet are as the run left them
NextRun ==
    /\ pc \in {"done", "crashed"}
    /\ run < MaxRuns
    /\ run' = run + 1
    /\ pc' = "start"
    /\ crash' = "none"
    /\ prev_downloaded' = prev_downloaded \cup downloaded
    /\ prev_done' = (pc = "done")
    /\ worksheets' = << >>
    /\ s3_objects' = << >>
    /\ i' = 1
    /\ data_files' = << >>
    /\ j' = 1
    /\ dataframe_cols' = 0
    /\ ws_idx' = 1
    /\ consolidated_data' = << >>
    /\ header_row' = << >>
    /\ decisions' = {}
    /\ downloaded' = {}
    /\ cleaned' = {}
    /\ written' = {}
    /\ sync_log' = << >>
    /\ agg_ops' = << >>
    /\ UNCHANGED << s3_keys, files, empty_files, tabs, cleaner >>

\* the keys of the runs that go through every step of main
RunKeys == {CarsJan01, DataCarsFeb01, CarsFile}

Init == InitOver(RunKeys)

\* one run of main
Next ==
    \/ Start
    \/ SelectKey
    \/ ListDataFiles
    \/ ProcessFile
    \/ StartAggregate
    \/ AggregateRead
    \/ EnsureAllData
    \/ ReadHeader
    \/ Publish

Spec == Init /\ [][Next]_vars

\* the File Selector over every key of the model
InitSelect == InitOver(Keys) /\ tabs = << >>

NextSelect ==
    \/ Start
    \/ SelectKey

SpecSelect == InitSelect /\ [][NextSelect]_vars

\* consecutive runs against a spreadsheet that lets a run complete
InitRuns ==
    /\ Init
    /\ Cardinality(files) <= 1
    /\ Titles = << JAN01_DATE, ALL_DATA >>

NextRuns ==
    \/ Next
    \/ NextRun

SpecRuns == InitRuns /\ [][NextRuns]_vars

\* the Record Cleaner on its own: clean_dataframe applied to a raw table
InitClean ==
    /\ df_in \in UNION { [1..n -> RawRows] : n \in 0..MaxRows }
    /\ df_out = NoTable
    /\ s3_keys = << >>
    /\ files = {}
    /\ empty_files = {}
    /\ tabs = << >>
    /\ worksheets = << >>
    /\ pc = "clean"
    /\ run = 1
    /\ s3_objects = << >>
    /\ i = 1
    /\ data_files = << >>
    /\ j = 1
    /\ dataframe_cols = 0
    /\ ws_idx = 1
    /\ consolidated_data = << >>
    /\ header_row = << >>
    /\ crash = "none"
    /\ decisions = {}
    /\ downloaded = {}
    /\ prev_downloaded = {}
    /\ prev_done = FALSE
    /\ cleaned = {}
    /\ written = {}
    /\ sync_log = << >>
    /\ agg_ops = << >>

\* lines 49-93
CleanTable ==
    /\ pc = "clean"
    /\ df_out = NoTable
    /\ df_out' = clean_dataframe(df_in)
    /\ UNCHANGED << s3_keys, files, empty_files, tabs, worksheets, pc, run,
                    s3_objects, i, data_files, j, dataframe_cols, ws_idx,
                    consolidated_data, header_row, crash, decisions, downloaded,
                    prev_downloaded, cleaned, written, sync_log, agg_ops, df_in,
                    prev_done >>

SpecClean == InitClean /\ [][CleanTable]_vars

-----------------------------------------------------------------------------
(* The documented form of a key, read off the key's text alone *)

\* position of the last "." of s, 0 when absent
LastDot(s) ==
    IF \E k \in 1..Len(s) : s[k] = "."
    THEN CHOOSE k \in 1..Len(s) : s[k] = "." /\ \A m \in (k + 1)..Len(s) : s[m] # "."
    ELSE 0

\* key is <prefix>_YYYYMMDDhhmmss.<ext> with a non-empty prefix and extension
HasForm(key) ==
    LET p == LastDot(key) IN
    /\ p >= 17
    /\ p < Len(key)
    /\ key[p - 15] = "_"
    /\ IsDigits(SubSeq(key, p - 14, p - 1))

\* the DD of <prefix>_YYYYMMDDhhmmss.<ext>
DayDigits(key) == SubSeq(key, LastDot(key) - 8, LastDot(key) - 7)

\* the prefix of a key of the documented form holds no underscore
PlainPrefix(key) ==
    \A k \in 1..(LastDot(key) - 16) : key[k] # "_"

-----------------------------------------------------------------------------
(* C1 *)

-----------------------------------------------------------------------------
(* C2 *)

RowOk(row, yearOk(_)) ==
    /\ row[5] \notin {<< >>, NaN}
    /\ row[4] \notin {<< >>, NaN}
    /\ row[8] \notin {<< >>, NaN}
    /\ row[7] \notin {<< >>, NaN}
    /\ row[6] \notin {<< >>, NaN}
    /\ row[8] \notin {ARKHIV, LICHNAYA}
    /\ row[6] # LICHNAYA
    /\ row[2] # BETMOBIL
    /\ yearOk(row[3])

\* C2 as stated: every row of a table clean_dataframe returns has non-empty vin,
\* number, status, region and department, a status outside the excluded set, a
\* department other than the excluded label, a model other than the placeholder,
\* and a year of exactly 4 characters.
C2_RowsCleanYearIs4 ==
    df_out.raised = "none" =>
        \A k \in 1..Len(df_out.value) :
            RowOk(df_out.value[k], LAMBDA y : Len(y) = 4)

\* y is the text t cut to at most four characters
IsCutToFour(y, t) ==
    /\ Len(y) <= 4
    /\ Len(y) <= Len(t)
    /\ \A k \in 1..Len(y) : y[k] = t[k]
    /\ (Len(y) = 4 \/ Len(y) = Len(t))

\* C2 amended: as stated, except that the year is the text of a source row's
\* YearCar ("nan" for a missing one) cut to its first four characters: at most 4
\* characters long, and exactly 4 only when that text has at least 4.
C2_RowsCleanYearAtMost4 ==
    df_out.raised = "none" =>
        \A k \in 1..Len(df_out.value) :
            RowOk(df_out.value[k],
                  LAMBDA y : \E n \in 1..Len(df_in) :
                                 IsCutToFour(y, PyStr(df_in[n].YearCar)))

\* clean_dataframe dropped a row and kept one whose year is shorter than 4
C2_Witness ==
    /\ df_out.raised = "none"
    /\ Len(df_out.value) >= 1
    /\ Len(df_out.value) < Len(df_in)
    /\ \E k \in 1..Len(df_out.value) : Len(df_out.value[k][3]) < 4

-----------------------------------------------------------------------------
(* C3 *)

\* C3: for every file the Sheet Synchronizer processed, the create branch was taken
\* iff no tab with the derived title was on the spreadsheet at that moment, and
\* the resize-and-overwrite branch otherwise, also when an earlier file of the
\* same run created that tab.
C3_CreateIffAbsent ==
    \A k \in 1..Len(sync_log) : sync_log[k].create <=> ~sync_log[k].existed

-----------------------------------------------------------------------------
(* C4 *)

RECURSIVE SourceDataRows(_)
\* the data rows (rows below the header) of the tabs other than all_data and the
\* summary tab
SourceDataRows(ts) ==
    IF Len(ts) = 0 THEN 0
    ELSE (IF ts[1].title \in {ALL_DATA, SVODNAYA} THEN 0
          ELSE Len(DataRowsOf(ts[1].values)))
         + SourceDataRows(Tail(ts))

\* C4: after a completed run the all_data tab holds as many data rows as the tabs
\* then on the spreadsheet, other than all_data and the summary tab, hold
\* together, the tabs created in that run included.
C4_AllDataCountsEveryTab ==
    pc = "done" =>
        Len(DataRowsOf(GetAllValues(ALL_DATA))) = SourceDataRows(tabs)

-----------------------------------------------------------------------------
(* C5 *)

AggregatorStarted == pc \in {"agg_read", "agg_header", "agg_publish", "done"}

\* C5: when the Aggregator starts, every key the File Selector downloaded in this
\* run has been given to clean_dataframe and written to its tab.
C5_DownloadedIsProcessed ==
    AggregatorStarted => \A key \in downloaded : key \in cleaned /\ key \in written

-----------------------------------------------------------------------------
(* C6 *)

\* what ends the processing of one data file with an exception
FileFailures ==
    {"read_csv", "clean_dataframe", "get_sheet_name", "add_worksheet", "resize",
     "update"}

\* C6: a failure while processing one data file does not abort the run.
C6_FileFailureIsolated == crash \in FileFailures => pc # "crashed"

-----------------------------------------------------------------------------
(* C7 *)

\* C7: the File Selector does not end the run on a key that lacks the form
\* <prefix>_<14 digits>.<ext>; it skips the key and goes on.
C7_MalformedKeySkipped ==
    \A k \in 1..Len(s3_objects) :
        (k = i /\ ~HasForm(s3_objects[k])) => pc # "crashed"

-----------------------------------------------------------------------------
(* C8 *)

\* C8: when a read of the Aggregator fails (a source tab's rows or the header row),
\* the all_data tab has not been created, resized, cleared or written in this run.
C8_NoAllDataBeforeReads ==
    (pc = "crashed" /\ crash \in {"get_all_values", "get_all_values_header"})
        => agg_ops = << >>

-----------------------------------------------------------------------------
(* C9 *)

\* C9: the header row written to all_data was read from a tab that is neither
\* all_data nor the summary tab.
C9_HeaderFromMonthTab ==
    pc = "done" => worksheets[2] \notin {ALL_DATA, SVODNAYA}

-----------------------------------------------------------------------------
(* C10 *)

\* C10: a run that follows a completed run against the same bucket downloads no key
\* that an earlier run downloaded.
C10_DownloadedOnce == prev_done => downloaded \cap prev_downloaded = {}

====
